---- MODULE Spec2Model ----
(***************************************************************************)
(* ARMS slot monitor (api_monitor.py): the slot-polling loop with its      *)
(* per-slot baselines, the fetcher with its re-login and retry, the error  *)
(* alert limiter, the commands of the bot thread on the cookie and on the  *)
(* subscribers, the slot list saved from the dashboard, subscribers.json   *)
(* rewritten by two threads, and restarts of the process.                  *)
(*                                                                         *)
(* A course record is represented by its SubjectId: the loop only reads    *)
(* len(courses) and c["SubjectId"]; the other fields are rendered into the *)
(* message text only.                                                      *)
(***************************************************************************)
EXTENDS Integers, Sequences, FiniteSets, TLC

\* ------------------------------------------------------------------ bounds
MaxCourses == 2    \* longest course table the server returns
MaxTicks == 2      \* clock advances
MaxAge == 2        \* the age of a baseline is counted up to MaxAge fetches
NumErrKinds == 1   \* how many of the request exceptions (conn, timeout, http) occur

\* ------------------------------------------------------- program constants
ALERT_COOLDOWN == 3600

DefaultSlots == <<4, 5, 2, 7>>
ADMIN_CHAT_ID == "admin"
CHANNEL_CHAT_ID == "channel"
EnvCookie == "env"
LoginCookie == "login"

\* time.time() when the threads start: the epoch clock is far beyond one cooldown
StartTime == ALERT_COOLDOWN
\* the clock advances by half a cooldown
TickStep == ALERT_COOLDOWN \div 2
MaxNow == StartTime + MaxTicks * TickStep

Min(a, b) == IF a < b THEN a ELSE b

\* the configured slots: the first of the default slots
ActiveSlots == SubSeq(DefaultSlots, 1, 1)
SlotIds == {ActiveSlots[i] : i \in 1..Len(ActiveSlots)}

\* the first two of the default slots, and their ids
TwoSlots == SubSeq(DefaultSlots, 1, 2)
TwoSlotIds == {TwoSlots[i] : i \in 1..Len(TwoSlots)}

\* a stored entry without "id" and "label": api_settings stores any JSON
NoFields == 0
\* the lists of one or two entries, each the first slot or an entry without fields
EntryLists ==
  UNION {[1..n -> {ActiveSlots[1], NoFields}] : n \in 1..2}

\* the slot lists the dashboard saves: none, one or both of the two slots
SlotLists == {SubSeq(TwoSlots, a, b) : a \in 1..Len(TwoSlots), b \in 0..Len(TwoSlots)}

RequestErrors == <<"conn", "timeout", "http">>
ErrKinds == {RequestErrors[i] : i \in 1..Min(NumErrKinds, Len(RequestErrors))}
Kinds == {"empty", "err"} \cup ErrKinds

\* the SubjectId values the server's records carry
SubjectIds == {1, 2}
Snapshots == UNION {[1..n -> SubjectIds] : n \in 0..MaxCourses}
ChatIds == {ADMIN_CHAT_ID, "other"}
CookieValues == {"", "fresh"}

VARIABLES
  pc,          \* position of the monitor thread: sleep, fetch, login, retry, record,
               \* or raised when an exception has left monitor_thread
  active,      \* active_slots of the current cycle (slot ids)
  idx,         \* position of the for loop in active
  baselines,   \* slot id -> [count, courses]; domain = slots with a baseline
  files,       \* slot id -> courses written to latest_slot<id>.json
  lastAlert,   \* _last_alert: key -> time of the last recorded alert
  cookie,      \* COOKIES["ASP.NET_SessionId"]
  now,         \* time.time()
  pend,        \* alert_admin between its check and its write: <<[key, now]>> or <<>>
  sent,        \* increase notifications sent by the last step
  ev,          \* the last step: [op, slot, kind, snap]
  lastSent,    \* history: key -> time of the last alert sent to the admin
  age,         \* history: slot id -> successful fetches since its baseline snapshot
  dbSlots,     \* db["slots"] of subscribers.json (slot ids)
  prevActive,  \* history: active_slots of the cycle before the current one
  approved,    \* db["approved"] of subscribers.json: sequence of [phone, chat_id, name]
  pending,     \* db["pending"] of subscribers.json: phone -> [chat_id, name]
  io,          \* subscribers.json being rewritten: [web, bot, writers, settings]
  slot_label   \* the local slot_label of monitor_thread: unbound until assigned

vars == <<pc, active, idx, baselines, files, lastAlert, cookie, now, pend, sent, ev,
          lastSent, age, dbSlots, prevActive, approved, pending, io, slot_label>>

EmptyMap == [k \in {} |-> 0]

\* mutant: one key per slot, whatever the failure category
KeyWithoutCategory(slot, kind) == <<slot, "any">>

\* f"slot{slot_id}_{kind}"
Key(slot, kind) == <<slot, kind>>

\* dict.get(key, now): an absent entry read as the present time
GetOrNow(map, k) == IF k \in DOMAIN map THEN map[k] ELSE now

\* dict.get(key, 0)
Get(map, k) == IF k \in DOMAIN map THEN map[k] ELSE 0

\* mutant: the assignment replaces the value of every key
PutAll(map, k, v) == [x \in DOMAIN map \cup {k} |-> v]

\* d[k] = v
Put(map, k, v) == [x \in DOMAIN map \cup {k} |-> IF x = k THEN v ELSE map[x]]

\* d.pop(k, None)
Pop(map, k) == [x \in DOMAIN map \ {k} |-> map[x]]

\* mutant: only the empty-response entries are removed
ClearEmptyKeys(map) == [x \in {y \in DOMAIN map : y[2] # "empty"} |-> map[x]]

\* mutant: the map is left as it is
ClearNothing(map) == map

\* d.clear()
Clear(map) == EmptyMap

\* the last step: the operation, its slot, the failure category or write outcome
\* (the chat id for a bot command), the table fetched, in prev the limiter
\* entry an alert replaced or the number of entries a clear removed (for a
\* command on the subscribers: 1 when save_db was called), in arg the cookie a
\* request carried or the argument of a bot command, and in out the messages the
\* bot thread sent in the step
Event(op, slot, kind, snap) ==
  [op |-> op, slot |-> slot, kind |-> kind, snap |-> snap, prev |-> 0,
   arg |-> "", out |-> <<>>]

\* no handler is between its load_db and the end of its save_db, the file is
\* whole, and the dashboard has saved no slot list yet
Idle == [web |-> <<>>, bot |-> <<>>, writers |-> 0, settings |-> <<>>]

\* the state when the threads start, db["slots"] being slots
InitDb(slots) ==
  /\ pc = "sleep"
  /\ active = <<>>
  /\ idx = 0
  /\ baselines = EmptyMap
  /\ files = EmptyMap
  /\ lastAlert = EmptyMap
  /\ cookie = EnvCookie
  /\ now = StartTime
  /\ pend = <<>>
  /\ sent = <<>>
  /\ ev = Event("init", 0, "", <<>>)
  /\ lastSent = EmptyMap
  /\ age = EmptyMap
  /\ dbSlots = slots
  /\ prevActive = <<>>
  /\ approved = <<>>
  /\ pending = EmptyMap
  /\ io = Idle
  /\ slot_label = "unbound"

Init == InitDb(ActiveSlots)

InitTwo == InitDb(TwoSlots)

Slot == active[idx]

\* the for loop goes on to the next slot, or the cycle ends and the thread sleeps
NextSlot ==
  /\ idx' = idx + 1
  /\ pc' = IF idx + 1 <= Len(active) THEN "fetch" ELSE "sleep"
  /\ UNCHANGED active

\* slot_data["id"] and slot_data["label"] exist
HasIdAndLabel(slot_data) == slot_data # NoFields

\* slot_id = slot_data["id"]; slot_label = slot_data["label"]
Entry ==
  /\ HasIdAndLabel(Slot)
  /\ slot_label' = "bound"

\* while True: db = load_db(); active_slots = db.get("slots", [])
StartCycle(slots) ==
  /\ pc = "sleep"
  /\ active' = slots
  /\ prevActive' = active
  /\ idx' = 1
  /\ pc' = IF Len(slots) >= 1 THEN "fetch" ELSE "sleep"
  /\ sent' = <<>>
  /\ ev' = Event("start", 0, "", <<>>)
  /\ UNCHANGED <<baselines, files, lastAlert, cookie, now, pend, lastSent, age,
                 dbSlots, approved, pending, io, slot_label>>


\* ------------------------------------------------------------- the detector
Range(seq) == {seq[i] : i \in 1..Len(seq)}

\* mutant: the identifiers collected in a set and listed in ascending order
DictKeysSorted(courses) ==
  LET ids == Range(courses)
      F[i \in 0..Cardinality(ids)] ==
        IF i = 0 THEN <<>>
        ELSE Append(F[i - 1],
                    CHOOSE x \in ids \ Range(F[i - 1]) :
                      \A y \in ids \ Range(F[i - 1]) : x <= y)
  IN F[Cardinality(ids)]

\* keys of {c["SubjectId"]: c for c in courses}, in insertion order
DictKeys(courses) ==
  LET F[i \in 0..Len(courses)] ==
        IF i = 0 THEN <<>>
        ELSE IF courses[i] \in Range(F[i - 1]) THEN F[i - 1]
             ELSE Append(F[i - 1], courses[i])
  IN F[Len(courses)]

\* mutant: every record of the new table is listed as added
AddedLinesAll(prev_courses, courses) == DictKeys(courses)

\* mutant: the last of the new identifiers is left out
AddedLinesButLast(prev_courses, courses) ==
  LET prev_ids == Range(DictKeys(prev_courses))
      added == SelectSeq(DictKeys(courses), LAMBDA sid : sid \notin prev_ids)
  IN SubSeq(added, 1, Len(added) - 1)

\* for sid, c in curr_ids.items(): if sid not in prev_ids: added_lines.append(...)
AddedLines(prev_courses, courses) ==
  LET prev_ids == Range(DictKeys(prev_courses))
  IN SelectSeq(DictKeys(courses), LAMBDA sid : sid \notin prev_ids)

\* mutant: the count is stored without the course records
BaselineCountOnly(courses) == [count |-> Len(courses), courses |-> <<>>]

\* mutant: the count is left at the count of an empty table
BaselineStaleCount(courses) == [count |-> 0, courses |-> courses]

\* baselines[slot_id] = {"count": current_count, "courses": courses}
Baseline(courses) == [count |-> Len(courses), courses |-> courses]

\* mutant: the baseline follows increases only
CountChangedUpOnly(prev_count, current_count) == current_count > prev_count

\* mutant: the baseline is replaced on every successful fetch
CountChangedAlways(prev_count, current_count) == TRUE

\* if current_count != prev_count
CountChanged(prev_count, current_count) == current_count # prev_count

\* if current_count > prev_count
CountIncreased(prev_count, current_count) == current_count > prev_count

\* tg_text, as sent to one chat
Message(to, slot, prev_count, current_count, added) ==
  [to |-> to, slot |-> slot, old |-> prev_count, new |-> current_count,
   delta |-> current_count - prev_count, added |-> added]

\* send_message(ADMIN_CHAT_ID, tg_text); broadcast(tg_text)
Notify(slot, prev_count, current_count, added) ==
  << Message(ADMIN_CHAT_ID, slot, prev_count, current_count, added),
     Message(CHANNEL_CHAT_ID, slot, prev_count, current_count, added) >>

\* mutant: a missing baseline is read as a baseline of no courses
FirstNoticeFromZero(s, courses) ==
  IF Len(courses) > 0
  THEN Notify(s, 0, Len(courses), AddedLines(<<>>, courses))
  ELSE <<>>

\* the first observation of a slot: the baseline is stored and the loop continues
FirstNotice(s, courses) == <<>>

\* mutant: a failed fetch is observed as a table of no courses
SkipSlotAsEmptyTable ==
  IF active[idx] \in DOMAIN baselines
  THEN /\ baselines' = Put(baselines, active[idx], Baseline(<<>>))
       /\ sent' = <<>>
       /\ UNCHANGED <<files, age>>
  ELSE /\ sent' = <<>>
       /\ UNCHANGED <<baselines, files, age>>

\* if courses is None: continue -- nothing is observed, stored or sent
SkipSlot ==
  /\ sent' = <<>>
  /\ UNCHANGED <<baselines, files, age>>

\* the loop body after a successful fetch; wr is the outcome of writing
\* latest_slot<id>.json ("wok", or "wfail" when open() raises, which the
\* except clause of the loop body catches)
Observe(s, courses, wr) ==
  LET current_count == Len(courses) IN
  IF s \notin DOMAIN baselines
  THEN /\ baselines' = Put(baselines, s, Baseline(courses))
       /\ age' = Put(age, s, 0)
       /\ sent' = FirstNotice(s, courses)
       /\ UNCHANGED files
  ELSE LET prev_count == baselines[s].count
           prev_courses == baselines[s].courses
       IN IF CountChanged(prev_count, current_count)
          THEN /\ baselines' = Put(baselines, s, Baseline(courses))
               /\ age' = Put(age, s, 0)
               /\ IF wr = "wok"
                  THEN /\ files' = Put(files, s, courses)
                       /\ sent' = IF CountIncreased(prev_count, current_count)
                                  THEN Notify(s, prev_count, current_count,
                                              AddedLines(prev_courses, courses))
                                  ELSE <<>>
                  ELSE /\ sent' = <<>>
                       /\ UNCHANGED files
          ELSE /\ age' = Put(age, s, Min(Get(age, s) + 1, MaxAge))
               /\ sent' = <<>>
               /\ UNCHANGED <<baselines, files>>

\* whether the step writes the file at all
Writes(s, courses) ==
  s \in DOMAIN baselines /\ CountChanged(baselines[s].count, Len(courses))

\* ---------------------------------------------------------------- alert_admin
\* mutant: an alert exactly one cooldown after the last one is suppressed too
SuppressedInclusive(last, t) == t - last <= ALERT_COOLDOWN

\* mutant: the cooldown is never applied
SuppressedNever(last, t) == FALSE

\* now - _last_alert.get(key, 0) < ALERT_COOLDOWN
Suppressed(last, t) == t - last < ALERT_COOLDOWN

\* alert_admin up to its write: the check returns (the fetch returns None and the
\* loop continues with the next slot), or the alert goes on to record and send
AlertAdmin(k) ==
  /\ IF Suppressed(Get(lastAlert, k), now)
     THEN pend' = <<>> /\ NextSlot
     ELSE /\ pend' = <<[key |-> k, now |-> now]>>
          /\ pc' = "record"
          /\ UNCHANGED <<idx, active>>
  /\ UNCHANGED lastAlert

\* _last_alert[key] = now; send_message(ADMIN_CHAT_ID, ...)
AlertRecord ==
  /\ pc = "record"
  /\ lastAlert' = Put(lastAlert, pend[1].key, pend[1].now)
  /\ lastSent' = Put(lastSent, pend[1].key, pend[1].now)
  /\ pend' = <<>>
  /\ NextSlot
  /\ ev' = [Event("alert", pend[1].key[1], pend[1].key[2], <<>>)
              EXCEPT !.prev = Get(lastAlert, pend[1].key)]
  /\ SkipSlot
  /\ UNCHANGED <<cookie, now, dbSlots, prevActive,
                 approved, pending, io, slot_label>>

\* --------------------------------------------------------------- fetch_courses
\* mutant: the request carries the cookie the module was loaded with
RequestCookieAtStart == EnvCookie

\* requests.get(url, headers=HEADERS, cookies=COOKIES, timeout=15)
RequestCookie == cookie

\* the step made a request, which carried the cookie
Requested(e) == [e EXCEPT !.arg = RequestCookie]

\* the body parses: data = json.loads(body).get("Table", []); the empty-response
\* key is cleared; the loop body observes the snapshot
FetchData(courses, wr) ==
  /\ pc \in {"fetch", "retry"}
  /\ Entry
  /\ wr \in {"wok", "wfail"}
  /\ wr = "wfail" => Writes(Slot, courses)
  /\ lastAlert' = Pop(lastAlert, Key(Slot, "empty"))
  /\ Observe(Slot, courses, wr)
  /\ NextSlot
  /\ ev' = Requested(Event("data", Slot, IF Writes(Slot, courses) THEN wr ELSE "",
                           courses))
  /\ UNCHANGED <<cookie, now, pend, lastSent, dbSlots, prevActive,
                 approved, pending, io>>

\* the body does not parse: except Exception
FetchJunk ==
  /\ pc \in {"fetch", "retry"}
  /\ Entry
  /\ AlertAdmin(Key(Slot, "err"))
  /\ SkipSlot
  /\ ev' = Requested(Event("junk", Slot, "err", <<>>))
  /\ UNCHANGED <<cookie, now, lastSent, dbSlots, prevActive,
                 approved, pending, io>>

\* the first request raises ConnectionError, Timeout or HTTPError
FetchError(kind) ==
  /\ pc = "fetch"
  /\ Entry
  /\ AlertAdmin(Key(Slot, kind))
  /\ SkipSlot
  /\ ev' = Requested(Event("error", Slot, kind, <<>>))
  /\ UNCHANGED <<cookie, now, lastSent, dbSlots, prevActive,
                 approved, pending, io>>

\* slot_data["id"] or slot_data["label"] raises: the except clause of the loop
\* body logs slot_label, which raises UnboundLocalError out of monitor_thread
\* when no entry has bound it yet; otherwise the loop goes on to the next entry
EntryError ==
  /\ pc = "fetch"
  /\ ~HasIdAndLabel(Slot)
  /\ IF slot_label = "unbound"
     THEN pc' = "raised" /\ UNCHANGED <<active, idx>>
     ELSE NextSlot
  /\ sent' = <<>>
  /\ ev' = Event("entry_error", 0, "", <<>>)
  /\ UNCHANGED <<baselines, files, lastAlert, cookie, now, pend, lastSent, age,
                 dbSlots, prevActive, approved, pending, io, slot_label>>

\* the first response is empty: auto_login() is called
FetchEmpty ==
  /\ pc = "fetch"
  /\ Entry
  /\ pc' = "login"
  /\ sent' = <<>>
  /\ ev' = Requested(Event("empty", Slot, "empty", <<>>))
  /\ UNCHANGED <<active, idx, baselines, files, lastAlert, cookie, now, pend,
                 lastSent, age, dbSlots, prevActive,
                 approved, pending, io>>

\* auto_login returns False (no credentials, no session id, an exception): the
\* body is still empty and the empty-response alert is raised
LoginFail ==
  /\ pc = "login"
  /\ AlertAdmin(Key(Slot, "empty"))
  /\ SkipSlot
  /\ ev' = Event("loginfail", Slot, "empty", <<>>)
  /\ UNCHANGED <<cookie, now, lastSent, dbSlots, prevActive,
                 approved, pending, io, slot_label>>

\* mutant: after a successful login the whole fetch starts again
AfterLoginRefetch == "fetch"

\* if auto_login(): the request is retried with the new cookie
AfterLogin == "retry"

\* auto_login obtained a session id: the cookie is replaced, the cooldowns cleared
LoginOk ==
  /\ pc = "login"
  /\ cookie' = LoginCookie
  /\ lastAlert' = Clear(lastAlert)
  /\ pc' = AfterLogin
  /\ sent' = <<>>
  /\ ev' = [Event("loginok", Slot, "", <<>>)
              EXCEPT !.prev = Cardinality(DOMAIN lastAlert)]
  /\ UNCHANGED <<active, idx, baselines, files, now, pend, lastSent, age,
                 dbSlots, prevActive,
                 approved, pending, io, slot_label>>

\* the retried request raises (body = "") or is empty again
RetryEmpty ==
  /\ pc = "retry"
  /\ AlertAdmin(Key(Slot, "empty"))
  /\ SkipSlot
  /\ ev' = Requested(Event("retryempty", Slot, "empty", <<>>))
  /\ UNCHANGED <<cookie, now, lastSent, dbSlots, prevActive,
                 approved, pending, io, slot_label>>

\* ------------------------------------------------------------------ the clock
Tick ==
  /\ now + TickStep <= MaxNow
  /\ now' = now + TickStep
  /\ sent' = <<>>
  /\ ev' = Event("tick", 0, "", <<>>)
  /\ UNCHANGED <<pc, active, idx, baselines, files, lastAlert, cookie, pend,
                 lastSent, age, dbSlots, prevActive,
                 approved, pending, io, slot_label>>

\* ----------------------------------------------------------------- bot thread
\* send_message(chat_id, text), the text by its kind
Reply(to, text) == [to |-> to, text |-> text]

\* mutant: every chat is taken for the admin's
AuthorisedAnyone(chat_id) == TRUE

\* mutant: the test is inverted
AuthorisedNotAdmin(chat_id) == chat_id # ADMIN_CHAT_ID

\* if str(chat_id) != str(ADMIN_CHAT_ID): "Not authorised."
Authorised(chat_id) == chat_id = ADMIN_CHAT_ID

\* handle_set_cookie(chat_id, value): refused for another chat or an empty value,
\* else the cookie is replaced and the cooldowns are cleared
SetCookie(chat_id, value) ==
  /\ IF Authorised(chat_id) /\ value # ""
     THEN /\ cookie' = value
          /\ lastAlert' = Clear(lastAlert)
          /\ ev' = [Event("setcookie", 0, chat_id, <<>>)
                      EXCEPT !.prev = Cardinality(DOMAIN lastAlert),
                             !.arg = value,
                             !.out = <<Reply(chat_id, "cookie_updated")>>]
     ELSE /\ UNCHANGED <<cookie, lastAlert>>
          /\ ev' = [Event("refused", 0, chat_id, <<>>)
                      EXCEPT !.arg = value,
                             !.out = <<Reply(chat_id, IF Authorised(chat_id)
                                                      THEN "usage"
                                                      ELSE "not_authorised")>>]
  /\ sent' = <<>>
  /\ UNCHANGED <<pc, active, idx, baselines, files, now, pend, lastSent, age,
                 dbSlots, prevActive,
                 approved, pending, io, slot_label>>

Bot ==
  \E chat_id \in ChatIds, value \in CookieValues : SetCookie(chat_id, value)

\* ---------------------------------------------------------------- subscribers
\* the phone numbers of the messages, as typed, and first names
PhoneInputs == {"p1", "+p1", "p2"}
FirstNames == {"Ann"}

\* subscriber_chat_id = None
NoChat == "none"

\* phone.lstrip("+").strip()
Normalise(raw) == IF raw = "+p1" THEN "p1" ELSE raw

\* for sub in db["approved"]: if sub.get("phone") == phone
IsApproved(list, phone) == \E i \in 1..Len(list) : list[i].phone = phone

\* a step of the bot thread: the command, the chat, its argument, whether
\* save_db was called, and the messages sent
BotEvent(op, chat_id, arg, saved, out) ==
  [Event(op, 0, chat_id, <<>>) EXCEPT !.arg = arg, !.prev = saved, !.out = out]

\* what the handlers of the subscriber commands leave alone
BotFrame ==
  /\ sent' = <<>>
  /\ UNCHANGED <<pc, active, idx, baselines, files, lastAlert, cookie, now, pend,
                 lastSent, age, dbSlots, prevActive, io, slot_label>>

\* handle_start
HandleStart(chat_id) ==
  /\ ev' = BotEvent("start", chat_id, "", 0, <<Reply(chat_id, "hello")>>)
  /\ UNCHANGED <<approved, pending>>
  /\ BotFrame

\* handle_contact
HandleContact(chat_id, raw, first_name) ==
  LET phone == Normalise(raw) IN
  /\ IF IsApproved(approved, phone)
     THEN /\ UNCHANGED <<approved, pending>>
          /\ ev' = BotEvent("contact", chat_id, phone, 0,
                            <<Reply(chat_id, "already_subscriber")>>)
     ELSE /\ pending' = Put(pending, phone, [chat_id |-> chat_id, name |-> first_name])
          /\ UNCHANGED approved
          /\ ev' = BotEvent("contact", chat_id, phone, 1,
                            <<Reply(chat_id, "received"),
                              Reply(ADMIN_CHAT_ID, "request")>>)
  /\ BotFrame

\* mutant: the pending request is kept when it is approved
TakePendingKept(map, phone) == map

\* del db["pending"][phone]
TakePending(map, phone) == Pop(map, phone)

\* handle_add_user
HandleAddUser(chat_id, raw) ==
  LET phone == Normalise(raw) IN
  /\ IF ~Authorised(chat_id)
     THEN /\ UNCHANGED <<approved, pending>>
          /\ ev' = BotEvent("user", chat_id, phone, 0,
                            <<Reply(chat_id, "not_authorised")>>)
     ELSE IF IsApproved(approved, phone)
     THEN /\ UNCHANGED <<approved, pending>>
          /\ ev' = BotEvent("user", chat_id, phone, 0,
                            <<Reply(chat_id, "already_approved")>>)
     ELSE IF phone \in DOMAIN pending
     THEN /\ approved' = Append(approved, [phone |-> phone,
                                           chat_id |-> pending[phone].chat_id,
                                           name |-> pending[phone].name])
          /\ pending' = TakePending(pending, phone)
          /\ ev' = BotEvent("user", chat_id, phone, 1,
                            <<Reply(ADMIN_CHAT_ID, "approved"),
                              Reply(pending[phone].chat_id, "congrats")>>)
     ELSE /\ approved' = Append(approved, [phone |-> phone, chat_id |-> NoChat,
                                           name |-> "User"])
          /\ UNCHANGED pending
          /\ ev' = BotEvent("user", chat_id, phone, 1,
                            <<Reply(ADMIN_CHAT_ID, "approved"),
                              Reply(ADMIN_CHAT_ID, "not_started")>>)
  /\ BotFrame

\* handle_list_users
HandleListUsers(chat_id) ==
  /\ ev' = BotEvent("users", chat_id, "", 0,
                    <<Reply(chat_id,
                            IF ~Authorised(chat_id) THEN "not_authorised"
                            ELSE IF approved = <<>> /\ DOMAIN pending = {} THEN "none"
                            ELSE "list")>>)
  /\ UNCHANGED <<approved, pending>>
  /\ BotFrame

\* mutant: the entries of the other phones are dropped too
WithoutAnyPhone(list, phone) == <<>>

\* [s for s in db["approved"] if s.get("phone") != phone]
WithoutPhone(list, phone) == SelectSeq(list, LAMBDA sub : sub.phone # phone)

\* handle_remove_user
HandleRemoveUser(chat_id, raw) ==
  LET phone == Normalise(raw) IN
  /\ IF ~Authorised(chat_id)
     THEN /\ UNCHANGED <<approved, pending>>
          /\ ev' = BotEvent("remove", chat_id, phone, 0,
                            <<Reply(chat_id, "not_authorised")>>)
     ELSE IF Len(WithoutPhone(approved, phone)) < Len(approved)
     THEN /\ approved' = WithoutPhone(approved, phone)
          /\ UNCHANGED pending
          /\ ev' = BotEvent("remove", chat_id, phone, 1,
                            <<Reply(chat_id, "removed")>>)
     ELSE /\ UNCHANGED <<approved, pending>>
          /\ ev' = BotEvent("remove", chat_id, phone, 0,
                            <<Reply(chat_id, "not_found")>>)
  /\ BotFrame

\* bot_thread, text == "/setcookie": the usage text, whoever asks
SetCookieUsage(chat_id) ==
  /\ ev' = BotEvent("usage", chat_id, "", 0, <<Reply(chat_id, "usage")>>)
  /\ UNCHANGED <<approved, pending>>
  /\ BotFrame

\* bot_thread: one message of one chat is dispatched; the value of
\* "/setcookie <value>" is not empty, the text having been stripped
BotCommands ==
  \E chat_id \in ChatIds :
    \/ \E raw \in PhoneInputs, first_name \in FirstNames :
         HandleContact(chat_id, raw, first_name)
    \/ HandleStart(chat_id)
    \/ \E raw \in PhoneInputs : HandleAddUser(chat_id, raw)
    \/ HandleListUsers(chat_id)
    \/ \E raw \in PhoneInputs : HandleRemoveUser(chat_id, raw)
    \/ \E value \in CookieValues \ {""} : SetCookie(chat_id, value)
    \/ SetCookieUsage(chat_id)

\* -------------------------------------------------------------- web dashboard
\* api_settings, POST: db = load_db(); db["slots"] = data["slots"]; save_db(db)
SaveSettings(slots) ==
  /\ dbSlots' = slots
  /\ sent' = <<>>
  /\ ev' = Event("settings", 0, "", <<>>)
  /\ UNCHANGED <<pc, active, idx, baselines, files, lastAlert, cookie, now, pend,
                 lastSent, age, prevActive,
                 approved, pending, io, slot_label>>

\* ----------------------------------------------------- subscribers.json, by steps
\* load_db(): the content of the file, or default_db (its slots cut to the
\* configured number) when the file is being rewritten and does not parse
LoadDb ==
  IF io.writers > 0
  THEN [approved |-> <<>>, pending |-> EmptyMap, slots |-> ActiveSlots]
  ELSE [approved |-> approved, pending |-> pending, slots |-> dbSlots]

\* what a step on the file leaves alone
FileFrame ==
  /\ sent' = <<>>
  /\ UNCHANGED <<pc, active, idx, baselines, files, lastAlert, cookie, now, pend,
                 lastSent, age, prevActive, slot_label>>

\* api_settings, POST, up to save_db: db = load_db(); db["slots"] = data["slots"]
SettingsLoad(slots) ==
  /\ io.web = <<>>
  /\ io' = [io EXCEPT !.web = <<[db |-> [LoadDb EXCEPT !.slots = slots],
                                  writing |-> FALSE]>>]
  /\ ev' = Event("settings_load", 0, "", slots)
  /\ UNCHANGED <<approved, pending, dbSlots>>
  /\ FileFrame

\* handle_add_user of the admin, up to save_db, for a phone with no pending
\* request: db = load_db(); db["approved"].append(...)
AddUserLoad(raw) ==
  LET phone == Normalise(raw)
      db == LoadDb
  IN /\ io.bot = <<>>
     /\ phone \notin DOMAIN db.pending
     /\ IF IsApproved(db.approved, phone)
        THEN UNCHANGED io
        ELSE io' = [io EXCEPT !.bot =
                      <<[db |-> [db EXCEPT !.approved =
                                   Append(@, [phone |-> phone, chat_id |-> NoChat,
                                              name |-> "User"])],
                         writing |-> FALSE]>>]
     /\ ev' = BotEvent("user_load", ADMIN_CHAT_ID, phone, 0, <<>>)
     /\ UNCHANGED <<approved, pending, dbSlots>>
     /\ FileFrame

\* save_db, SUBSCRIBERS_FILE.write_text: the file is opened for writing and cut
SaveTruncate(thread) ==
  /\ io[thread] # <<>>
  /\ ~io[thread][1].writing
  /\ io' = [io EXCEPT ![thread] = <<[@[1] EXCEPT !.writing = TRUE]>>,
                      !.writers = @ + 1]
  /\ ev' = Event("truncate", 0, thread, <<>>)
  /\ UNCHANGED <<approved, pending, dbSlots>>
  /\ FileFrame

\* save_db, SUBSCRIBERS_FILE.write_text: the text is written and the file closed
SaveWrite(thread) ==
  /\ io[thread] # <<>>
  /\ io[thread][1].writing
  /\ approved' = io[thread][1].db.approved
  /\ pending' = io[thread][1].db.pending
  /\ dbSlots' = io[thread][1].db.slots
  /\ io' = [io EXCEPT ![thread] = <<>>,
                      !.writers = @ - 1,
                      !.settings = IF thread = "web"
                                   THEN <<io[thread][1].db.slots>>
                                   ELSE @]
  /\ ev' = Event("saved", 0, thread, <<>>)
  /\ FileFrame

\* -------------------------------------------------------------------- restart
\* mutant: the baselines are read back from the latest_slot<id>.json files
BaselinesFromFiles == [s \in DOMAIN files |-> Baseline(files[s])]

\* monitor_thread: baselines: dict[int, dict] = {}
NewBaselines == EmptyMap

\* the process ends and is started again: the module state and the locals of
\* monitor_thread are initialised anew (the cookie from the environment, or by
\* the auto-login of __main__); subscribers.json and the snapshot files stay
Restart ==
  /\ pc' = "sleep"
  /\ active' = <<>>
  /\ idx' = 0
  /\ baselines' = NewBaselines
  /\ lastAlert' = EmptyMap
  /\ cookie' \in {EnvCookie, LoginCookie}
  /\ pend' = <<>>
  /\ sent' = <<>>
  /\ ev' = Event("restart", 0, "", <<>>)
  /\ age' = EmptyMap
  /\ prevActive' = <<>>
  /\ slot_label' = "unbound"
  /\ UNCHANGED <<files, now, lastSent, dbSlots, approved, pending, io>>

\* the tables of at most one course, with SubjectId 1
SmallTables == {t \in Snapshots : Len(t) <= 1 /\ \A i \in 1..Len(t) : t[i] = 1}

\* the polling loop alone, over every table the server may return
Next ==
  \/ StartCycle(ActiveSlots)
  \/ \E courses \in Snapshots, wr \in {"wok", "wfail"} : FetchData(courses, wr)
  \/ FetchJunk
  \/ \E kind \in ErrKinds : FetchError(kind)
  \/ FetchEmpty
  \/ LoginFail
  \/ LoginOk
  \/ RetryEmpty
  \/ AlertRecord

Spec == Init /\ [][Next]_vars

\* the polling loop, the clock and the bot thread, over the small tables
NextAlert ==
  \/ StartCycle(ActiveSlots)
  \/ \E courses \in SmallTables : FetchData(courses, "wok")
  \/ \E kind \in ErrKinds : FetchError(kind)
  \/ FetchEmpty
  \/ LoginFail
  \/ LoginOk
  \/ RetryEmpty
  \/ AlertRecord
  \/ Tick
  \/ Bot

SpecAlert == Init /\ [][NextAlert]_vars

\* two slots whose table stays empty: the polling loop with every failure
\* category of fetch_courses but the parse error, and the bot thread; the clock
\* stands still
NextKeys ==
  \/ StartCycle(dbSlots)
  \/ FetchData(<<>>, "wok")
  \/ \E kind \in ErrKinds : FetchError(kind)
  \/ FetchEmpty
  \/ LoginFail
  \/ LoginOk
  \/ RetryEmpty
  \/ AlertRecord
  \/ Bot

SpecKeys == InitTwo /\ [][NextKeys]_vars

\* the slot list saved from the dashboard while the polling loop runs; requests
\* fail with a request exception only
NextSlots ==
  \/ StartCycle(dbSlots)
  \/ \E courses \in SmallTables : FetchData(courses, "wok")
  \/ \E kind \in ErrKinds : FetchError(kind)
  \/ AlertRecord
  \/ \E slots \in SlotLists : SaveSettings(slots)

SpecSlots == Init /\ [][NextSlots]_vars

\* two slots polled by a process that is restarted at any moment
NextRestart ==
  \/ StartCycle(dbSlots)
  \/ \E courses \in SmallTables, wr \in {"wok", "wfail"} : FetchData(courses, wr)
  \/ \E kind \in ErrKinds : FetchError(kind)
  \/ AlertRecord
  \/ Restart

SpecRestart == InitTwo /\ [][NextRestart]_vars

\* the three threads: the polling loop over tables that stay empty, the bot
\* thread and the dashboard, which saves lists of at most one slot
NextThreads ==
  \/ StartCycle(dbSlots)
  \/ FetchData(<<>>, "wok")
  \/ \E kind \in ErrKinds : FetchError(kind)
  \/ AlertRecord
  \/ Bot
  \/ \E slots \in {l \in SlotLists : Len(l) <= 1} : SaveSettings(slots)

SpecThreads == Init /\ [][NextThreads]_vars

\* the bot thread with every command, and the polling loop over the small
\* tables with requests that succeed
NextUsers ==
  \/ StartCycle(dbSlots)
  \/ \E courses \in SmallTables : FetchData(courses, "wok")
  \/ BotCommands

SpecUsers == Init /\ [][NextUsers]_vars

\* the bot thread with every command, and the polling loop over a table that
\* stays empty with requests that fail with a request exception
NextAdmin ==
  \/ StartCycle(dbSlots)
  \/ FetchData(<<>>, "wok")
  \/ \E kind \in ErrKinds : FetchError(kind)
  \/ AlertRecord
  \/ BotCommands

SpecAdmin == Init /\ [][NextAdmin]_vars

\* the polling loop over the small tables while the dashboard saves lists with
\* entries that lack their fields
NextEntries ==
  \/ StartCycle(dbSlots)
  \/ \E courses \in SmallTables : FetchData(courses, "wok")
  \/ EntryError
  \/ \E slots \in EntryLists : SaveSettings(slots)

SpecEntries == Init /\ [][NextEntries]_vars

\* subscribers.json read by the polling loop while the dashboard saves slot
\* lists that hold the second slot and the bot thread approves one phone
NextDb ==
  \/ StartCycle(LoadDb.slots)
  \/ FetchData(<<>>, "wok")
  \/ \E slots \in {l \in SlotLists : TwoSlots[2] \in Range(l)} : SettingsLoad(slots)
  \/ \E raw \in {r \in PhoneInputs : Normalise(r) = "p1"} : AddUserLoad(raw)
  \/ \E thread \in {"web", "bot"} : SaveTruncate(thread)
  \/ \E thread \in {"web", "bot"} : SaveWrite(thread)

SpecDb == Init /\ [][NextDb]_vars

\* ------------------------------------------------------------------ properties
\* the step is a successful fetch of slot s; ev'.snap is the table fetched
Fetched(s) == ev'.op = "data" /\ ev'.slot = s

\* the step is a fetch of slot s that failed or is on its way to failing
FailedOps == {"junk", "error", "empty", "loginfail", "retryempty", "alert"}

\* position in seq of the first occurrence of x
FirstIndex(seq, x) == CHOOSE i \in 1..Len(seq) : seq[i] = x /\ \A j \in 1..(i - 1) : seq[j] # x

Unique(seq) == \A i, j \in 1..Len(seq) : seq[i] = seq[j] => i = j

\* C1: the first successful fetch of a slot without a baseline, whatever its
\* count, stores the fetched table and its count as the baseline and sends no
\* increase notification.
C1_FirstObservationSilent ==
  [][\A s \in SlotIds :
       (Fetched(s) /\ s \notin DOMAIN baselines)
         => /\ s \in DOMAIN baselines'
            /\ baselines'[s] = [count |-> Len(ev'.snap), courses |-> ev'.snap]
            /\ sent' = <<>>]_vars

\* a first observation of an empty table: the baseline has count 0, nothing sent
C1_Witness ==
  /\ ev.op = "data" /\ ev.kind = "" /\ ev.snap = <<>>
  /\ ev.slot \in DOMAIN baselines
  /\ age[ev.slot] = 0
  /\ baselines[ev.slot].count = 0
  /\ sent = <<>>

\* C2: on every successful fetch of a slot that has a baseline, an increase
\* notification is sent if and only if the fetched count is greater than the
\* baseline count.
C2_NotifyIffIncrease ==
  [][\A s \in SlotIds :
       (Fetched(s) /\ s \in DOMAIN baselines)
         => ((sent' # <<>>) <=> (Len(ev'.snap) > baselines[s].count))]_vars

\* C3: a successful fetch whose count is at most the baseline count sends
\* nothing, and after every successful fetch the baseline count is the count of
\* the table fetched.
C3_NoNoticeUnlessIncrease ==
  [][\A s \in SlotIds :
       Fetched(s)
         => /\ s \in DOMAIN baselines'
            /\ baselines'[s].count = Len(ev'.snap)
            /\ (s \in DOMAIN baselines /\ Len(ev'.snap) <= baselines[s].count)
                 => sent' = <<>>]_vars

\* a decrease was recorded: the file was written, nothing was sent
C3_Witness ==
  /\ ev.op = "data" /\ ev.kind = "wok"
  /\ sent = <<>>
  /\ baselines[ev.slot].count = 1
  /\ baselines[ev.slot].courses = ev.snap

\* C4: the identifiers an increase notification lists as added are exactly those
\* of the fetched table that the baseline table did not hold.
C4_AddedIsSetDifference ==
  [][\A i \in 1..Len(sent') :
       /\ sent'[i].slot \in DOMAIN baselines
       /\ Range(sent'[i].added)
            = Range(ev'.snap) \ Range(baselines[sent'[i].slot].courses)]_vars

\* an increase from one course to two, one of them new
C4_Witness ==
  /\ sent # <<>>
  /\ sent[1].old = 1 /\ sent[1].new = 2
  /\ Len(sent[1].added) = 1
  /\ Unique(ev.snap)

\* C5: an increase notification reports the baseline count before the fetch, the
\* fetched count and their positive difference, and lists the added identifiers
\* in the order in which the fetched table first holds them; for a table of
\* unique identifiers that is the table without the baseline's identifiers.
C5_NoticeContent ==
  [][\A i \in 1..Len(sent') :
       LET m == sent'[i]
           base == baselines[m.slot]
       IN /\ m.slot = ev'.slot
          /\ m.old = base.count
          /\ m.new = Len(ev'.snap)
          /\ m.delta = m.new - m.old
          /\ m.delta > 0
          /\ \A a, b \in 1..Len(m.added) :
               a < b => FirstIndex(ev'.snap, m.added[a]) < FirstIndex(ev'.snap, m.added[b])
          /\ Unique(ev'.snap)
               => m.added = SelectSeq(ev'.snap, LAMBDA x : x \notin Range(base.courses))]_vars

\* from a baseline of no courses to the table <<2, 1>>: old 0, new 2, delta 2
C5_Witness ==
  /\ sent # <<>>
  /\ sent[1].old = 0 /\ sent[1].new = 2 /\ sent[1].delta = 2
  /\ sent[1].added = <<2, 1>>

\* C6: a successful fetch with the baseline's count leaves the baseline and the
\* snapshot files as they are and sends nothing, neither a notification nor an
\* alert.
C6_EqualCountChangesNothing ==
  [][\A s \in SlotIds :
       (Fetched(s) /\ s \in DOMAIN baselines /\ Len(ev'.snap) = baselines[s].count)
         => /\ baselines' = baselines
            /\ files' = files
            /\ sent' = <<>>
            /\ pend' = <<>> /\ lastSent' = lastSent]_vars

\* a fetch of as many courses as the baseline, but other ones
C6_Witness ==
  /\ ev.op = "data" /\ ev.kind = ""
  /\ age[ev.slot] >= 1
  /\ baselines[ev.slot].count = Len(ev.snap)
  /\ baselines[ev.slot].courses # ev.snap

\* C7: a failed fetch leaves every baseline (and file) as it is, sends no
\* increase notification, and the loop goes on to the next slot.
C7_FailedFetchSkipsSlot ==
  [][ev'.op \in FailedOps
       => /\ baselines' = baselines
          /\ files' = files
          /\ sent' = <<>>
          /\ ev'.op \in {"junk", "error", "loginfail", "retryempty"}
               => \/ pc' = "record" /\ idx' = idx
                  \/ idx' = idx + 1
          /\ ev'.op = "alert" => idx' = idx + 1]_vars

\* the retried request failed too, and the baseline of two courses is kept
C7_Witness ==
  /\ ev.op = "retryempty"
  /\ ev.slot \in DOMAIN baselines
  /\ baselines[ev.slot].count = 2

\* C8 as stated: the baseline is never older than the second-most-recent
\* successful fetch of its slot.
C8_BaselineNeverOlderThanSecond ==
  \A s \in DOMAIN baselines : age[s] <= 1

\* C8 as amended: the baseline is the table of the slot's first successful fetch
\* or of the latest one whose count differed from the count stored before it;
\* a fetch of the same count leaves it as it is, and no other step changes it.
C8_BaselineFollowsCountChanges ==
  [][/\ \A s \in SlotIds :
          Fetched(s)
            => IF s \notin DOMAIN baselines \/ Len(ev'.snap) # baselines[s].count
               THEN baselines'[s].courses = ev'.snap
               ELSE baselines'[s] = baselines[s] /\ baselines'[s].count = Len(ev'.snap)
     /\ ev'.op # "data" => baselines' = baselines]_vars

\* a baseline two or more successful fetches old, differing from the latest table
C8_Witness ==
  /\ ev.op = "data"
  /\ ev.slot \in DOMAIN baselines
  /\ age[ev.slot] >= 2
  /\ baselines[ev.slot].courses # ev.snap

\* the steps in which fetch_courses calls alert_admin, for the key of ev'
AlertCalls == {"junk", "error", "loginfail", "retryempty"}

\* the limiter entry alert_admin reads for key k in the step: a successful
\* auto-login empties the map in a step of its own, before the retried request
EntryOf(k) == IF k \in DOMAIN lastAlert THEN lastAlert[k] ELSE 0

\* C9: a call of alert_admin for key k at time now is suppressed, leaving the
\* limiter map as it is and alerting nobody, when now - lastAlert[k] < cooldown
\* (an absent entry counting as 0); otherwise it alerts and records
\* lastAlert[k] = now.
C9_LimiterStep ==
  [][/\ ev'.op \in AlertCalls
          => LET k == Key(ev'.slot, ev'.kind)
             IN IF now - EntryOf(k) < ALERT_COOLDOWN
                THEN /\ lastAlert' = lastAlert
                     /\ lastSent' = lastSent
                     /\ pend' = <<>>
                     /\ pc' # "record"
                ELSE /\ pc' = "record"
                     /\ pend' = <<[key |-> k, now |-> now]>>
                     /\ lastAlert' = lastAlert
     /\ ev'.op = "alert"
          => LET k == pend[1].key
             IN /\ k = Key(ev'.slot, ev'.kind)
                /\ lastAlert' = [x \in DOMAIN lastAlert \cup {k} |->
                                   IF x = k THEN pend[1].now ELSE lastAlert[x]]
                /\ lastSent'[k] = pend[1].now]_vars

\* a second failure half a cooldown after the alert was suppressed
C9_Witness ==
  /\ ev.op = "error"
  /\ pc # "record"
  /\ Key(ev.slot, ev.kind) \in DOMAIN lastAlert
  /\ now - lastAlert[Key(ev.slot, ev.kind)] = TickStep
  /\ lastSent[Key(ev.slot, ev.kind)] = lastAlert[Key(ev.slot, ev.kind)]

\* C10 as stated: any two alerts sent for one key are at least a cooldown apart.
C10_AlertsCooldownApart ==
  [][ev'.op = "alert"
       => LET k == Key(ev'.slot, ev'.kind)
          IN k \in DOMAIN lastSent => lastSent'[k] - lastSent[k] >= ALERT_COOLDOWN]_vars

\* C10 as amended: two consecutive alerts for one key are at least a cooldown
\* apart unless the key's limiter entry was cleared between them; an entry that
\* is present is the time of the key's last alert.
C10_AlertsCooldownApartUnlessCleared ==
  /\ [](\A k \in DOMAIN lastAlert : k \in DOMAIN lastSent /\ lastAlert[k] = lastSent[k])
  /\ [][ev'.op = "alert"
          => LET k == Key(ev'.slot, ev'.kind)
             IN (k \in DOMAIN lastSent /\ k \in DOMAIN lastAlert)
                  => lastSent'[k] - lastSent[k] >= ALERT_COOLDOWN]_vars

\* an alert exactly one cooldown after the alert whose entry it replaces
C10_Witness ==
  /\ ev.op = "alert"
  /\ ev.prev = StartTime
  /\ lastSent[Key(ev.slot, ev.kind)] = StartTime + ALERT_COOLDOWN
  /\ lastAlert[Key(ev.slot, ev.kind)] = StartTime + ALERT_COOLDOWN

\* C11: after a successful fetch of a slot the limiter holds no entry for any
\* failure category of that slot (empty response, connection, timeout, HTTP,
\* unexpected error), so the next failure of each category alerts at once.
C11_RecoveryClearsSlotKeys ==
  [][\A s \in SlotIds :
       Fetched(s) => \A kind \in Kinds : Key(s, kind) \notin DOMAIN lastAlert']_vars

\* C12: a call of alert_admin for a key that has no limiter entry alerts, at
\* every value of the clock from one cooldown after the epoch on (the absent
\* entry is read as time 0).
C12_AbsentKeyAlerts ==
  /\ [](now >= ALERT_COOLDOWN)
  /\ [][(ev'.op \in AlertCalls /\ Key(ev'.slot, ev'.kind) \notin DOMAIN lastAlert)
          => /\ pc' = "record"
             /\ pend' = <<[key |-> Key(ev'.slot, ev'.kind), now |-> now]>>]_vars

\* an alert on its way for a key whose entry was cleared less than a cooldown
\* after its last alert
C12_Witness ==
  /\ pc = "record"
  /\ pend[1].key \notin DOMAIN lastAlert
  /\ pend[1].key \in DOMAIN lastSent
  /\ now - lastSent[pend[1].key] = TickStep

\* C13: an alert recorded for one (slot, category) key leaves the limiter entry
\* of every other key as it is, and whether a call of alert_admin is suppressed
\* depends on the entry of its own (slot, category) pair alone.
C13_KeysIndependent ==
  [][/\ ev'.op = "alert"
          => \A k \in (DOMAIN lastAlert \cup DOMAIN lastAlert') \ {<<ev'.slot, ev'.kind>>} :
               /\ k \in DOMAIN lastAlert /\ k \in DOMAIN lastAlert'
               /\ lastAlert'[k] = lastAlert[k]
     /\ ev'.op \in AlertCalls
          => (pc' = "record" <=> ~(now - EntryOf(<<ev'.slot, ev'.kind>>) < ALERT_COOLDOWN))]_vars

\* the empty-response alert of the second slot is sent while the entries of the
\* first slot's empty-response key and of its own connection key are fresh
C13_Witness ==
  /\ ev.op = "alert" /\ ev.slot = TwoSlots[2] /\ ev.kind = "empty"
  /\ <<TwoSlots[1], "empty">> \in DOMAIN lastAlert
  /\ <<TwoSlots[2], "conn">> \in DOMAIN lastAlert
  /\ \A k \in DOMAIN lastAlert : lastAlert[k] = now

\* the steps that replace the session cookie: a successful auto-login and an
\* accepted /setcookie of the admin
Refreshes == {"loginok", "setcookie"}

\* C14: a credential refresh (a successful auto-login or an accepted /setcookie
\* of the admin) leaves the limiter without any entry, for every key of every
\* slot at once.
C14_RefreshClearsAll ==
  [][ev'.op \in Refreshes
       => /\ DOMAIN lastAlert' = {}
          /\ cookie' \in {LoginCookie} \cup (CookieValues \ {""})]_vars

\* an accepted /setcookie removed three or more entries, so entries of both slots
C14_Witness ==
  /\ ev.op = "setcookie"
  /\ ev.prev >= 3
  /\ lastAlert = EmptyMap

\* the steps of the bot thread and of the dashboard
CommandOps == {"setcookie", "refused", "settings"}

\* C15 as stated: no step of the bot thread or of the dashboard changes the
\* baseline map or the limiter map.
C15_MapsOwnedByPollingLoop ==
  [][ev'.op \in CommandOps
       => baselines' = baselines /\ lastAlert' = lastAlert]_vars

\* C15 as amended: the baseline map is changed by the successful fetches of the
\* polling loop alone; limiter entries are written by the alerts of the polling
\* loop alone, and the only step of the bot thread or the dashboard that changes
\* the limiter map is the admin's accepted /setcookie, which empties it.
C15_OnlySetCookieClears ==
  [][/\ ev'.op \in CommandOps => baselines' = baselines
     /\ ev'.op \in {"refused", "settings"} => lastAlert' = lastAlert
     /\ ev'.op = "setcookie" => ev'.kind = ADMIN_CHAT_ID /\ DOMAIN lastAlert' = {}
     /\ baselines' # baselines => ev'.op = "data"
     /\ (\E k \in DOMAIN lastAlert' : k \notin DOMAIN lastAlert \/ lastAlert'[k] # lastAlert[k])
          => ev'.op = "alert"]_vars

\* the admin's /setcookie emptied a limiter map that held an entry, and the
\* baselines are still there
C15_Witness ==
  /\ ev.op = "setcookie"
  /\ ev.prev >= 1
  /\ lastAlert = EmptyMap
  /\ DOMAIN baselines # {}

\* C16: the clear of an accepted /setcookie never falls between the check of
\* alert_admin and its write: no /setcookie is accepted while an alert that
\* passed the check has yet to record its entry.
C16_ClearNotInsideLimiter ==
  [][ev'.op = "setcookie" => (pc # "record" /\ pend = <<>>)]_vars

\* C17: in every reachable state the count of each stored baseline is the number
\* of records of its snapshot, and a step that sends an increase notification,
\* or whose file write fails, has already stored the fetched table and its count
\* as the baseline.
C17_BaselineAtomic ==
  /\ [](\A s \in DOMAIN baselines : baselines[s].count = Len(baselines[s].courses))
  /\ [][(sent' # <<>> \/ (ev'.op = "data" /\ ev'.kind = "wfail"))
          => /\ ev'.op = "data"
             /\ baselines'[ev'.slot] = [count |-> Len(ev'.snap), courses |-> ev'.snap]]_vars

\* the notification of an increase from one course to two has been sent and the
\* baseline holds the table of two courses
C17_Witness ==
  /\ sent # <<>>
  /\ sent[1].old = 1
  /\ baselines[ev.slot].count = 2
  /\ baselines[ev.slot].courses = ev.snap

\* C18: a successful fetch of a slot that was not in the slot list of the cycle
\* before (a new slot, or one removed earlier and added again) stores the
\* fetched table as the slot's baseline and sends no increase notification.
C18_ActivatedSlotRebaselines ==
  [][\A s \in TwoSlotIds :
       (Fetched(s) /\ s \notin Range(prevActive))
         => /\ sent' = <<>>
            /\ baselines'[s] = [count |-> Len(ev'.snap), courses |-> ev'.snap]]_vars

\* C19: a restart leaves the baseline map empty, and the first successful fetch
\* of each slot since the process started stores the fetched table as the
\* baseline and sends no increase notification (the domain of age holds the
\* slots fetched successfully since the start).
C19_RestartRebaselines ==
  /\ [][ev'.op = "restart" => DOMAIN baselines' = {}]_vars
  /\ [][\A s \in TwoSlotIds :
          (Fetched(s) /\ s \notin DOMAIN age)
            => /\ sent' = <<>>
               /\ baselines'[s] = [count |-> Len(ev'.snap), courses |-> ev'.snap]]_vars

\* after a restart the first fetch of a slot returned more courses than the
\* snapshot file written before the restart holds: no file write, nothing sent
C19_Witness ==
  /\ ev.op = "data" /\ ev.kind = ""
  /\ age[ev.slot] = 0
  /\ ev.slot \in DOMAIN files
  /\ Len(files[ev.slot]) < Len(ev.snap)
  /\ baselines[ev.slot].courses = ev.snap
  /\ sent = <<>>

\* C20: in every state the snapshot file of each slot that has a baseline
\* exists and holds the baseline's table.
C20_FileEqualsBaseline ==
  \A s \in DOMAIN baselines :
    s \in DOMAIN files /\ files[s] = baselines[s].courses

\* the steps of the bot thread that handle /user, /users, /remove, /setcookie
AdminOps == {"user", "users", "remove", "setcookie", "refused", "usage"}

\* the step handles an admin command sent from a chat that is not the admin's
NonAdminCommand == ev'.op \in AdminOps /\ ev'.kind # ADMIN_CHAT_ID

\* C21 as stated: an admin command from a chat other than the admin's changes
\* neither the approved list, the pending map, the cookie nor the limiter map,
\* and the only message sent is the not-authorised reply to that chat.
C21_NonAdminOnlyRefused ==
  [][NonAdminCommand
       => /\ UNCHANGED <<approved, pending, cookie, lastAlert>>
          /\ ev'.out = <<Reply(ev'.kind, "not_authorised")>>]_vars

\* C21 as amended: such a command changes none of the four, and the only
\* message sent is the not-authorised reply to that chat, or the usage text
\* when the message is /setcookie without a value.
C21_NonAdminChangesNothing ==
  [][NonAdminCommand
       => /\ UNCHANGED <<approved, pending, cookie, lastAlert>>
          /\ ev'.prev = 0
          /\ ev'.out = <<Reply(ev'.kind, IF ev'.op = "usage" THEN "usage"
                                         ELSE "not_authorised")>>]_vars

\* another chat asked to remove an approved phone and was refused, while a
\* request is pending and the limiter holds an entry
C21_Witness ==
  /\ ev.op = "remove" /\ ev.kind # ADMIN_CHAT_ID
  /\ IsApproved(approved, ev.arg)
  /\ DOMAIN pending # {}
  /\ DOMAIN lastAlert # {}
  /\ ev.out = <<Reply(ev.kind, "not_authorised")>>

\* C22: a poll cycle that starts after a settings save of the dashboard has
\* completed polls the slots of the latest completed settings save, in their
\* order.
C22_SavedSlotsPolled ==
  [][(ev'.op = "start" /\ io.settings # <<>>) => active' = io.settings[1]]_vars

\* the steps in which fetch_courses sends a request
RequestOps == {"data", "junk", "error", "empty", "retryempty"}

\* C23: an accepted /setcookie stores its non-empty value as the cookie; the
\* cookie is changed by an accepted /setcookie or a successful auto-login only,
\* and every request carries the cookie in force when it is sent; a /setcookie
\* that is refused (an empty value, another chat) leaves the cookie and the
\* limiter map as they are.
C23_CookieInForce ==
  [][/\ ev'.op = "setcookie" => (ev'.arg # "" /\ cookie' = ev'.arg)
     /\ ev'.op = "refused" => (cookie' = cookie /\ lastAlert' = lastAlert)
     /\ (ev'.op = "refused" /\ ev'.kind = ADMIN_CHAT_ID) => ev'.arg = ""
     /\ ev'.op \in RequestOps => ev'.arg = cookie
     /\ cookie' # cookie => ev'.op \in Refreshes]_vars

\* a request that failed carried the cookie the admin had set, and the limiter
\* holds an entry
C23_Witness ==
  /\ ev.op \in RequestOps /\ ev.op # "data"
  /\ ev.arg \in CookieValues \ {""}
  /\ cookie = ev.arg
  /\ DOMAIN lastAlert # {}

\* C24: every increase notification is sent to the chat of each approved
\* subscriber whose chat id is known.
C24_SubscribersNotified ==
  [][sent' # <<>>
       => \A i \in 1..Len(approved) :
            approved[i].chat_id # NoChat
              => \E j \in 1..Len(sent') : sent'[j].to = approved[i].chat_id]_vars

\* the stages of one call of fetch_courses, in their order
Stage(p) == CASE p = "fetch" -> 0 [] p = "login" -> 1 [] p = "retry" -> 2 [] OTHER -> 3

\* C25: within one call of fetch_courses the stages are passed in the order
\* request, auto-login, retried request, none twice: an empty response leads to
\* the one auto-login; a successful login to the one retry; a failed login and
\* an empty retry to the call of alert_admin for the slot's empty-response key
\* and the end of the fetch; the retry ends the fetch with data or a failure.
C25_OneLoginOneRetry ==
  [][/\ (idx' = idx /\ Stage(pc) < 3 /\ Stage(pc') < 3) => Stage(pc') = Stage(pc) + 1
     /\ ev'.op = "empty" <=> (pc = "fetch" /\ pc' = "login")
     /\ pc = "login" => ev'.op \in {"loginok", "loginfail"}
     /\ ev'.op = "loginok" <=> (pc = "login" /\ pc' = "retry")
     /\ pc = "retry" => ev'.op \in {"data", "junk", "retryempty"}
     /\ ev'.op \in {"loginfail", "retryempty"}
          => /\ ev'.kind = "empty"
             /\ \/ pc' = "record" /\ pend'[1].key = <<ev'.slot, "empty">>
                \/ idx' = idx + 1 /\ Suppressed(EntryOf(<<ev'.slot, "empty">>), now)
     /\ ev'.op = "data" => idx' = idx + 1]_vars

\* the login succeeded, the retried request was empty again and the
\* empty-response alert is on its way
C25_Witness ==
  /\ ev.op = "retryempty"
  /\ cookie = LoginCookie
  /\ pc = "record"
  /\ pend[1].key[2] = "empty"

\* C26: auto_login that obtained a session id stores it as the cookie, empties
\* the limiter map and returns True (the request is retried); auto_login that
\* obtained none (no credentials, no session id, an exception) leaves the cookie
\* and the limiter map as they are and returns False (no retry).
C26_AutoLogin ==
  [][/\ ev'.op = "loginok"
          => /\ cookie' = LoginCookie
             /\ DOMAIN lastAlert' = {}
             /\ pc' = "retry"
     /\ ev'.op = "loginfail"
          => /\ cookie' = cookie
             /\ lastAlert' = lastAlert
             /\ pc' # "retry"
     /\ pc' = "retry" => ev'.op = "loginok"]_vars

\* a login failed after an earlier one had succeeded: the cookie of the earlier
\* login and the limiter entries are still there
C26_Witness ==
  /\ ev.op = "loginfail"
  /\ cookie = LoginCookie
  /\ DOMAIN lastAlert # {}

\* the messages of kind text among out, by their receivers
Receivers(out, text) == {out[i].to : i \in {j \in 1..Len(out) : out[j].text = text}}

\* C27: the admin's /user for a phone that is not approved appends one approved
\* entry for the phone and leaves the phone without a pending request, the other
\* entries and requests as they are; the entry has the chat id and the name of
\* the pending request, to whose chat the congratulation goes, or no chat id
\* when there was no request, and then no congratulation is sent. For a phone
\* that is approved nothing is changed and nothing saved.
C27_AddUser ==
  [][(ev'.op = "user" /\ ev'.kind = ADMIN_CHAT_ID)
       => LET phone == ev'.arg
              new == approved'[Len(approved')]
          IN IF IsApproved(approved, phone)
             THEN /\ UNCHANGED <<approved, pending>>
                  /\ ev'.prev = 0
                  /\ Receivers(ev'.out, "congrats") = {}
             ELSE /\ Len(approved') = Len(approved) + 1
                  /\ SubSeq(approved', 1, Len(approved)) = approved
                  /\ new.phone = phone
                  /\ ev'.prev = 1
                  /\ DOMAIN pending' = DOMAIN pending \ {phone}
                  /\ \A q \in DOMAIN pending' : pending'[q] = pending[q]
                  /\ IF phone \in DOMAIN pending
                     THEN /\ new.chat_id = pending[phone].chat_id
                          /\ new.name = pending[phone].name
                          /\ Receivers(ev'.out, "congrats") = {pending[phone].chat_id}
                     ELSE /\ new.chat_id = NoChat
                          /\ Receivers(ev'.out, "congrats") = {}]_vars

\* an approved entry was made from the pending request of another chat, which
\* was congratulated, while the other phone's request is still pending
C27_Witness ==
  /\ ev.op = "user" /\ ev.kind = ADMIN_CHAT_ID /\ ev.prev = 1
  /\ Len(approved) = 1
  /\ approved[1].phone = ev.arg
  /\ approved[1].chat_id = "other"
  /\ approved[1].name \in FirstNames
  /\ Receivers(ev.out, "congrats") = {"other"}
  /\ ev.arg \notin DOMAIN pending
  /\ DOMAIN pending # {}

\* C28: the admin's /remove leaves the pending map as it is; for a phone that
\* is approved it removes every approved entry with the phone, keeps the others
\* in their order and saves; for a phone that is not approved it changes
\* nothing and does not save.
C28_RemoveUser ==
  [][(ev'.op = "remove" /\ ev'.kind = ADMIN_CHAT_ID)
       => LET phone == ev'.arg IN
          /\ pending' = pending
          /\ IF IsApproved(approved, phone)
             THEN /\ ~IsApproved(approved', phone)
                  /\ approved' = SelectSeq(approved, LAMBDA sub : sub.phone # phone)
                  /\ ev'.prev = 1
                  /\ ev'.out = <<Reply(ADMIN_CHAT_ID, "removed")>>
             ELSE /\ approved' = approved
                  /\ ev'.prev = 0
                  /\ ev'.out = <<Reply(ADMIN_CHAT_ID, "not_found")>>]_vars

\* one of two approved entries was removed and the other one, made from a
\* pending request, is kept
C28_Witness ==
  /\ ev.op = "remove" /\ ev.kind = ADMIN_CHAT_ID /\ ev.prev = 1
  /\ Len(approved) = 1
  /\ approved[1].phone # ev.arg
  /\ approved[1].chat_id # NoChat

\* C29: whatever slot list is stored, an error raised while an entry is
\* processed is contained to that entry: no exception leaves monitor_thread, so
\* the monitor never terminates
C29_MonitorNeverTerminates == pc # "raised"

\* C30: no increase is absorbed: a step that raises a slot's baseline count
\* from an existing baseline to a larger count sends the notification of that
\* rise to the admin, also when writing the latest-snapshot file fails
C30_NoIncreaseAbsorbed ==
  [][\A s \in DOMAIN baselines \cap DOMAIN baselines' :
       baselines'[s].count > baselines[s].count
         => \E i \in 1..Len(sent') :
              /\ sent'[i].to = ADMIN_CHAT_ID
              /\ sent'[i].slot = s
              /\ sent'[i].old = baselines[s].count
              /\ sent'[i].new = baselines'[s].count]_vars

\* C31: without a /remove, under every interleaving of the load-modify-save
\* handlers on subscribers.json, no step drops an approved subscriber from the
\* file, and a save of the bot thread leaves the stored slot list as it was
C31_NothingLost ==
  [][/\ \A i \in 1..Len(approved) : IsApproved(approved', approved[i].phone)
     /\ (ev'.op = "saved" /\ ev'.kind = "bot") => dbSlots' = dbSlots]_vars

\* C32: a successful or failed fetch of slot S leaves every other slot's
\* baseline as it is; a failed fetch changes no baseline and sends nothing; a
\* successful one keeps S's baseline on an equal count and replaces it by the
\* fetched table otherwise, and what it sends is computed from S's own baseline
\* and the fetched table alone: the notification of S's increase (nothing when
\* writing S's file fails), and nothing when S has no baseline or did not grow.
C32_SlotsIndependent ==
  [][\A s \in TwoSlotIds :
       (ev'.slot = s /\ ev'.op \in {"data"} \cup FailedOps)
         => /\ \A t \in (DOMAIN baselines \cup DOMAIN baselines') \ {s} :
                 /\ t \in DOMAIN baselines
                 /\ t \in DOMAIN baselines'
                 /\ baselines'[t] = baselines[t]
            /\ ev'.op \in FailedOps => (baselines' = baselines /\ sent' = <<>>)
            /\ ev'.op = "data"
                 => LET own == IF s \in DOMAIN baselines THEN <<baselines[s]>> ELSE <<>>
                        up == own # <<>> /\ Len(ev'.snap) > own[1].count
                    IN /\ baselines'[s] =
                            IF own # <<>> /\ Len(ev'.snap) = own[1].count
                            THEN own[1]
                            ELSE [count |-> Len(ev'.snap), courses |-> ev'.snap]
                       /\ ~up => sent' = <<>>
                       /\ (up /\ ev'.kind # "wfail")
                            => sent' = Notify(s, own[1].count, Len(ev'.snap),
                                              AddedLines(own[1].courses, ev'.snap))
                       /\ (up /\ ev'.kind = "wfail") => sent' = <<>>]_vars

\* an increase of one slot was notified while the other slot holds a baseline
\* of another count, which the step left alone
C32_Witness ==
  /\ ev.op = "data"
  /\ sent # <<>>
  /\ sent[1].slot = ev.slot
  /\ \E t \in DOMAIN baselines \ {ev.slot} :
       baselines[t].count # baselines[ev.slot].count

\* C33: when the fetched table and the baseline table each hold no identifier
\* twice, an increase notification lists at least delta added identifiers, so
\* its added list is not empty.
C33_AddedAtLeastDelta ==
  [][\A i \in 1..Len(sent') :
       LET m == sent'[i]
           base == baselines[m.slot]
       IN (Unique(ev'.snap) /\ Unique(base.courses))
            => /\ Len(m.added) >= m.new - m.old
               /\ Cardinality(Range(ev'.snap) \ Range(base.courses))
                    >= Len(ev'.snap) - base.count
               /\ m.added # <<>>]_vars

\* a table of two different identifiers after a baseline of one of them: the
\* notification lists the other one
C33_Witness ==
  /\ ev.op = "data"
  /\ Len(ev.snap) = 2 /\ Unique(ev.snap)
  /\ sent # <<>>
  /\ sent[1].delta = 1
  /\ \E x \in Range(ev.snap) : sent[1].added = <<x>>

====
